---- MODULE Spec2Model ----
(***************************************************************************)
(* Task Organizer backend (FastAPI + SQLAlchemy, table "tasks").           *)
(*                                                                         *)
(* State: the tasks table and its id sequence, the wall clock, the         *)
(* database session time zone, and for every request worker the position   *)
(* of the request it is serving (dependency get_db, the handler's SQL      *)
(* statements one by one, the finally block of get_db).                    *)
(*                                                                         *)
(* The model covers a configured and reachable database.  Every statement  *)
(* runs under READ COMMITTED: it sees whatever is committed when it runs.  *)
(* Timestamps are read off a discrete clock; two readings may coincide.    *)
(***************************************************************************)
EXTENDS Integers, Sequences, FiniteSets, TLC

\* ---------------------------------------------------------------- bounds
MaxRequests == 3
MaxConcRequests == 2
MaxClock == 1
NumWorkers == 2

\* ------------------------------------------------------- program constants
MIN_LENGTH == 1
MAX_LENGTH == 255

Workers == 1..NumWorkers
SerialWorker == CHOOSE r \in Workers : TRUE

\* Session time zone of the database connection, as an offset from UTC in
\* clock units.  It is a property of the deployment, fixed for a run.
TzOffsets == {-1, 0, 1}

\* Optional[T]: None is the empty sequence, a present value a singleton.
None == <<>>
Some(x) == <<x>>

Rep(c, n) == [i \in 1..n |-> c]
TitleLens == {0, MIN_LENGTH, MAX_LENGTH, MAX_LENGTH + 1}
Titles == {Rep("a", n) : n \in TitleLens}
OptTitles == {None} \cup {Some(t) : t \in Titles}
OptBools == {None, Some(TRUE), Some(FALSE)}

VARIABLES
    tasks,      \* the table: id -> row
    nextId,     \* next value of the primary-key sequence
    clock,      \* true time (UTC)
    tzOffset,   \* session TimeZone of the database connection
    pc,         \* worker -> position in the request it serves
    req,        \* worker -> the request
    sess,       \* worker -> id of the Session get_db yielded (0: none)
    obj,        \* worker -> the ORM object the handler holds
    status,     \* worker -> HTTP status of the response (0: not yet)
    body,       \* worker -> rows of the response body
    open,       \* ids of the Sessions that are open
    nextSess,   \* Sessions constructed so far + 1
    snap,       \* worker -> what held when its request started (history)
    last,       \* worker -> the task its previous request created (history)
    deleted,    \* ids whose DELETE was committed (history)
    born,       \* id -> created_at written by the INSERT (history)
    flips,      \* id -> toggles since the last other write (history)
    sql,        \* worker -> kinds of SQL statement its request ran (history)
    nreq        \* requests received

vars == <<tasks, nextId, clock, tzOffset, pc, req, sess, obj, status, body,
          open, nextSess, snap, last, deleted, born, flips, sql, nreq>>

storeVars == <<tasks, nextId, deleted, born, flips>>
envVars == <<clock, tzOffset>>
sessVars == <<sess, open, nextSess>>

\* ---------------------------------------------------------------- schemas
\* Mutant: the upper limit is not checked.
ValidTitle_noMax(t) == Len(t) >= MIN_LENGTH

\* constr(min_length=1, max_length=255)
ValidTitle(t) == Len(t) >= MIN_LENGTH /\ Len(t) <= MAX_LENGTH

\* TaskCreate: title is required.
ValidCreate(p) == p.title # None /\ ValidTitle(p.title[1])

\* TaskUpdate: both fields optional; a title that is present is constrained.
ValidUpdate(p) == p.title = None \/ ValidTitle(p.title[1])

ValidPayload(r) ==
    CASE r.op = "create" -> ValidCreate(r)
      [] r.op = "update" -> ValidUpdate(r)
      [] OTHER -> TRUE

\* ----------------------------------------------------------------- models
\* func.now(): the database's clock, a timestamp with time zone.
DbNow == clock

\* datetime.utcnow(): the process clock as a naive UTC wall time.  Written
\* to a timestamptz column it is read as local time of the session zone.
UtcNowStored == clock - tzOffset

\* Mutant: the id is one more than the largest id in the table.
NewId_reuse ==
    IF DOMAIN tasks = {} THEN 1
    ELSE (CHOOSE i \in DOMAIN tasks : \A j \in DOMAIN tasks : i >= j) + 1

\* id = Column(Integer, primary_key=True): the next value of the sequence.
NewId == nextId

\* Mutant: updated_at of a new row comes from the process clock.
InsertRow_appClock(id, title) ==
    [id |-> id, title |-> title, is_completed |-> FALSE,
     created_at |-> DbNow, updated_at |-> UtcNowStored]

\* INSERT INTO tasks (title, is_completed): id from the sequence, both
\* timestamps from the server default now().
InsertRow(id, title) ==
    [id |-> id, title |-> title, is_completed |-> FALSE,
     created_at |-> DbNow, updated_at |-> DbNow]

Columns == {"title", "is_completed"}

\* Mutant: every attribute counts as changed, so every flush emits an UPDATE.
NetChanges_all(o) == Columns

\* Attributes whose value differs from the value the Session loaded.
NetChanges(o) == {c \in Columns : o.cur[c] # o.loaded[c]}

\* UPDATE tasks SET <changed columns>, updated_at = <onupdate> WHERE id = ..
UpdateRow(row, o) ==
    [row EXCEPT !.title = IF "title" \in NetChanges(o) THEN o.cur.title ELSE @,
                !.is_completed = IF "is_completed" \in NetChanges(o)
                                 THEN o.cur.is_completed ELSE @,
                !.updated_at = UtcNowStored]

\* ----------------------------------------------------------------- routes
\* Mutant: the ORDER BY has no tie-break on id.
OrderBefore_noTie(a, b) == a.created_at > b.created_at

\* order_by(Task.created_at.desc(), Task.id.desc())
OrderBefore(a, b) ==
    \/ a.created_at > b.created_at
    \/ a.created_at = b.created_at /\ a.id > b.id

RECURSIVE InsertSorted(_, _)
InsertSorted(x, s) ==
    IF s = <<>> THEN <<x>>
    ELSE IF OrderBefore(x, Head(s)) THEN <<x>> \o s
    ELSE <<Head(s)>> \o InsertSorted(x, Tail(s))

\* The rows are scanned in primary-key order and sorted by the ORDER BY key.
RECURSIVE SortRows(_, _)
SortRows(t, ids) ==
    IF ids = {} THEN <<>>
    ELSE LET m == CHOOSE i \in ids : \A j \in ids : i >= j
         IN InsertSorted(t[m], SortRows(t, ids \ {m}))

ListTasks(t) == SortRows(t, DOMAIN t)

\* payload applied to the loaded object (update_task lines 61-64)
ApplyPayload(row, p) ==
    [loaded |-> row,
     cur |-> [row EXCEPT
                !.title = IF p.title # None THEN p.title[1] ELSE @,
                !.is_completed = IF p.is_completed # None
                                 THEN p.is_completed[1] ELSE @]]

\* Mutant: toggle marks the task completed instead of negating.
ApplyToggle_setTrue(row) ==
    [loaded |-> row, cur |-> [row EXCEPT !.is_completed = TRUE]]

\* task.is_completed = not bool(task.is_completed)
ApplyToggle(row) ==
    [loaded |-> row, cur |-> [row EXCEPT !.is_completed = ~row.is_completed]]

ApplyNothing(row) == [loaded |-> row, cur |-> row]

\* ------------------------------------------------------------------- state
NoRequest == [op |-> "none", id |-> 0, title |-> None, is_completed |-> None]

NoSnap == [tasks |-> <<>>, gone |-> FALSE, created |-> <<>>]

\* The task a 201 response reports, with the title that was asked for.
Created(q, st, rows) ==
    IF q.op = "create" /\ st = 201
    THEN <<[title |-> q.title[1], id |-> rows[1].id]>>
    ELSE <<>>

Init ==
    /\ tasks = <<>>
    /\ nextId = 1
    /\ clock = 0
    /\ tzOffset \in TzOffsets
    /\ pc = [r \in Workers |-> "idle"]
    /\ req = [r \in Workers |-> NoRequest]
    /\ sess = [r \in Workers |-> 0]
    /\ obj = [r \in Workers |-> None]
    /\ status = [r \in Workers |-> 0]
    /\ body = [r \in Workers |-> <<>>]
    /\ open = {}
    /\ nextSess = 1
    /\ snap = [r \in Workers |-> NoSnap]
    /\ last = [r \in Workers |-> <<>>]
    /\ deleted = {}
    /\ born = <<>>
    /\ flips = <<>>
    /\ sql = [r \in Workers |-> {}]
    /\ nreq = 0

\* Time passes.
Tick ==
    /\ clock < MaxClock
    /\ clock' = clock + 1
    /\ UNCHANGED <<tasks, nextId, tzOffset, pc, req, sess, obj, status, body,
                   open, nextSess, snap, last, deleted, born, flips, sql,
                   nreq>>

\* ------------------------------------------------------------------ get_db
\* A request arrives at worker r, one of at most n.  The framework resolves
\* the dependency get_db (a new Session, lines 59-64) and validates the body
\* against the schema; the handler runs only if the body is valid.
Receive(r, q, n) ==
    /\ pc[r] = "idle"
    /\ nreq < n
    /\ nreq' = nreq + 1
    /\ req' = [req EXCEPT ![r] = q]
    /\ sess' = [sess EXCEPT ![r] = nextSess]
    /\ open' = open \cup {nextSess}
    /\ nextSess' = nextSess + 1
    /\ obj' = [obj EXCEPT ![r] = None]
    /\ body' = [body EXCEPT ![r] = <<>>]
    /\ sql' = [sql EXCEPT ![r] = {}]
    /\ snap' = [snap EXCEPT ![r] =
                  [tasks |-> tasks, gone |-> q.id \in deleted,
                   created |-> last[r]]]
    /\ IF ValidPayload(q)
       THEN /\ status' = [status EXCEPT ![r] = 0]
            /\ pc' = [pc EXCEPT ![r] = "handler"]
       ELSE /\ status' = [status EXCEPT ![r] = 422]
            /\ pc' = [pc EXCEPT ![r] = "finally"]
    /\ UNCHANGED <<storeVars, envVars, last>>

\* Mutant: the Session is closed only when the handler did not raise.
CloseSession_onSuccess(s, st) == IF st >= 400 THEN open ELSE open \ {s}

\* finally: db.close()
CloseSession(s, st) == open \ {s}

GetDbFinally(r) ==
    /\ pc[r] = "finally"
    /\ open' = CloseSession(sess[r], status[r])
    /\ pc' = [pc EXCEPT ![r] = "idle"]
    /\ last' = [last EXCEPT ![r] = Created(req[r], status[r], body[r])]
    /\ req' = [req EXCEPT ![r] = NoRequest]
    /\ obj' = [obj EXCEPT ![r] = None]
    /\ body' = [body EXCEPT ![r] = <<>>]
    /\ snap' = [snap EXCEPT ![r] = NoSnap]
    /\ sql' = [sql EXCEPT ![r] = {}]
    /\ UNCHANGED <<storeVars, envVars, sess, status, nextSess, nreq>>

\* ---------------------------------------------------- Session operations
\* The handler leaves with a response (a return or a raised exception).
Leave(r, st, rows) ==
    /\ status' = [status EXCEPT ![r] = st]
    /\ body' = [body EXCEPT ![r] = rows]
    /\ pc' = [pc EXCEPT ![r] = "finally"]

\* task = db.get(Task, task_id); if task is None: raise HTTPException(404)
Get(r, o) ==
    /\ sql' = [sql EXCEPT ![r] = @ \cup {"SELECT"}]
    /\ IF req[r].id \in DOMAIN tasks
       THEN /\ obj' = [obj EXCEPT ![r] = Some(o)]
            /\ pc' = [pc EXCEPT ![r] = "commit"]
            /\ UNCHANGED <<status, body>>
       ELSE /\ Leave(r, 404, <<>>)
            /\ UNCHANGED obj
    /\ UNCHANGED <<storeVars, envVars, sessVars, req, snap, last, nreq>>

\* db.add(task); db.commit() of a persistent object: the flush emits an
\* UPDATE only if some attribute has a net change; an UPDATE that matches
\* no row raises StaleDataError.
CommitUpdate(r) ==
    LET o == obj[r][1]
        id == req[r].id
    IN IF NetChanges(o) = {}
       THEN /\ pc' = [pc EXCEPT ![r] = "refresh"]
            /\ UNCHANGED <<storeVars, status, body, sql>>
       ELSE /\ sql' = [sql EXCEPT ![r] = @ \cup {"UPDATE"}]
            /\ IF id \in DOMAIN tasks
               THEN /\ tasks' = [tasks EXCEPT ![id] = UpdateRow(@, o)]
                    /\ flips' = [flips EXCEPT ![id] =
                          IF req[r].op = "toggle"
                          THEN [@ EXCEPT !.n = @ + 1]
                          ELSE [orig |-> tasks'[id].is_completed, n |-> 0]]
                    /\ pc' = [pc EXCEPT ![r] = "refresh"]
                    /\ UNCHANGED <<nextId, deleted, born, status, body>>
               ELSE /\ Leave(r, 500, <<>>)
                    /\ UNCHANGED storeVars

\* db.refresh(task): SELECT by primary key; no row raises
\* InvalidRequestError.
Refresh(r, id, st) ==
    /\ pc[r] = "refresh"
    /\ sql' = [sql EXCEPT ![r] = @ \cup {"SELECT"}]
    /\ IF id \in DOMAIN tasks
       THEN Leave(r, st, <<tasks[id]>>)
       ELSE Leave(r, 500, <<>>)
    /\ UNCHANGED <<storeVars, envVars, sessVars, req, obj, snap, last, nreq>>

\* ------------------------------------------------------------ list_tasks
RequestList(r, n) ==
    Receive(r, [NoRequest EXCEPT !.op = "list"], n)

ListTasksRun(r) ==
    /\ pc[r] = "handler"
    /\ req[r].op = "list"
    /\ sql' = [sql EXCEPT ![r] = @ \cup {"SELECT"}]
    /\ Leave(r, 200, ListTasks(tasks))
    /\ UNCHANGED <<storeVars, envVars, sessVars, req, obj, snap, last, nreq>>

\* ----------------------------------------------------------- create_task
RequestCreate(r, T, n) ==
    \E t \in T :
        Receive(r, [NoRequest EXCEPT !.op = "create", !.title = t], n)

\* task = Task(title=payload.title, is_completed=False); db.add; db.commit
CreateTaskCommit(r) ==
    /\ pc[r] = "handler"
    /\ req[r].op = "create"
    /\ LET id == NewId
           row == InsertRow(id, req[r].title[1])
       IN /\ tasks' = (id :> row) @@ tasks
          /\ born' = (id :> row.created_at) @@ born
          /\ flips' = (id :> [orig |-> row.is_completed, n |-> 0]) @@ flips
          /\ obj' = [obj EXCEPT ![r] = Some(ApplyNothing(row))]
    /\ nextId' = nextId + 1
    /\ sql' = [sql EXCEPT ![r] = @ \cup {"INSERT"}]
    /\ pc' = [pc EXCEPT ![r] = "refresh"]
    /\ UNCHANGED <<envVars, sessVars, req, status, body, snap, last,
                   deleted, nreq>>

CreateTaskRefresh(r) ==
    /\ req[r].op = "create"
    /\ Refresh(r, obj[r][1].loaded.id, 201)

\* ----------------------------------------------------------- update_task
RequestUpdate(r, T, B, n) ==
    \E id \in 1..nextId, t \in T, c \in B :
        Receive(r, [op |-> "update", id |-> id, title |-> t,
                    is_completed |-> c], n)

UpdateTaskGet(r) ==
    /\ pc[r] = "handler"
    /\ req[r].op = "update"
    /\ Get(r, ApplyPayload(tasks[req[r].id], req[r]))

UpdateTaskCommit(r) ==
    /\ pc[r] = "commit"
    /\ req[r].op = "update"
    /\ CommitUpdate(r)
    /\ UNCHANGED <<envVars, sessVars, req, obj, snap, last, nreq>>

UpdateTaskRefresh(r) ==
    /\ req[r].op = "update"
    /\ Refresh(r, req[r].id, 200)

\* ----------------------------------------------------------- toggle_task
RequestToggle(r, n) ==
    \E id \in 1..nextId :
        Receive(r, [NoRequest EXCEPT !.op = "toggle", !.id = id], n)

ToggleTaskGet(r) ==
    /\ pc[r] = "handler"
    /\ req[r].op = "toggle"
    /\ Get(r, ApplyToggle(tasks[req[r].id]))

ToggleTaskCommit(r) ==
    /\ pc[r] = "commit"
    /\ req[r].op = "toggle"
    /\ CommitUpdate(r)
    /\ UNCHANGED <<envVars, sessVars, req, obj, snap, last, nreq>>

ToggleTaskRefresh(r) ==
    /\ req[r].op = "toggle"
    /\ Refresh(r, req[r].id, 200)

\* ----------------------------------------------------------- delete_task
RequestDelete(r, n) ==
    \E id \in 1..nextId :
        Receive(r, [NoRequest EXCEPT !.op = "delete", !.id = id], n)

DeleteTaskGet(r) ==
    /\ pc[r] = "handler"
    /\ req[r].op = "delete"
    /\ Get(r, ApplyNothing(tasks[req[r].id]))

\* db.delete(task); db.commit(); return None.  A DELETE that matches no row
\* only warns.
DeleteTaskCommit(r) ==
    /\ pc[r] = "commit"
    /\ req[r].op = "delete"
    /\ LET id == req[r].id
       IN /\ tasks' = [i \in DOMAIN tasks \ {id} |-> tasks[i]]
          /\ deleted' = IF id \in DOMAIN tasks THEN deleted \cup {id} ELSE deleted
    /\ sql' = [sql EXCEPT ![r] = @ \cup {"DELETE"}]
    /\ Leave(r, 204, <<>>)
    /\ UNCHANGED <<envVars, sessVars, req, obj, snap, last, nextId, born,
                   flips, nreq>>

\* ------------------------------------------------------------------- specs
\* Worker r takes a step; request bodies carry a title from T and an
\* is_completed from B, and at most n requests arrive in all.
Serve(r, T, B, n) ==
    \/ RequestList(r, n) \/ ListTasksRun(r)
    \/ RequestCreate(r, T, n) \/ CreateTaskCommit(r) \/ CreateTaskRefresh(r)
    \/ RequestUpdate(r, T, B, n) \/ UpdateTaskGet(r) \/ UpdateTaskCommit(r)
    \/ UpdateTaskRefresh(r)
    \/ RequestToggle(r, n) \/ ToggleTaskGet(r) \/ ToggleTaskCommit(r)
    \/ ToggleTaskRefresh(r)
    \/ RequestDelete(r, n) \/ DeleteTaskGet(r) \/ DeleteTaskCommit(r)
    \/ GetDbFinally(r)

\* One request at a time.
Next == Tick \/ Serve(SerialWorker, OptTitles, OptBools, MaxRequests)

Spec == Init /\ [][Next]_vars

\* Requests served concurrently, interleaved at their SQL statements.
\* Timestamps steer no handler: SpecConc holds the clock still, lets the
\* session zone be UTC and draws request bodies from smaller sets.
ConcTitles == {None, Some(Rep("a", MIN_LENGTH + 1))}
ConcBools == {None}

\* The process starts against a database that already holds a task.
InitConc ==
    LET row == InsertRow(1, Rep("a", MIN_LENGTH))
    IN /\ clock = 0
       /\ tasks = (1 :> row)
       /\ nextId = 2
       /\ born = (1 :> row.created_at)
       /\ flips = (1 :> [orig |-> row.is_completed, n |-> 0])
       /\ deleted = {}
       /\ tzOffset = 0
       /\ pc = [r \in Workers |-> "idle"]
       /\ req = [r \in Workers |-> NoRequest]
       /\ sess = [r \in Workers |-> 0]
       /\ obj = [r \in Workers |-> None]
       /\ status = [r \in Workers |-> 0]
       /\ body = [r \in Workers |-> <<>>]
       /\ open = {}
       /\ nextSess = 1
       /\ snap = [r \in Workers |-> NoSnap]
       /\ last = [r \in Workers |-> <<>>]
       /\ sql = [r \in Workers |-> {}]
       /\ nreq = 0

NextConc ==
    \E r \in Workers : Serve(r, ConcTitles, ConcBools, MaxConcRequests)

SpecConc == InitConc /\ [][NextConc]_vars

\* ------------------------------------------------------------------ claims
\* The handler of worker r has left with its response; get_db's finally
\* block has not run yet.
Left(r) == pc[r] = "finally"

\* The task the request of worker r names existed when the request arrived.
Existed(r) == req[r].id \in DOMAIN snap[r].tasks

Before(r) == snap[r].tasks[req[r].id]
After(r) == tasks[req[r].id]

\* Every task but the one the request names is as it was.
OthersKept(r) ==
    /\ DOMAIN tasks \ {req[r].id} = DOMAIN snap[r].tasks \ {req[r].id}
    /\ \A i \in DOMAIN tasks \ {req[r].id} : tasks[i] = snap[r].tasks[i]

TitleOnly(r) ==
    /\ req[r].op = "update"
    /\ req[r].title # None
    /\ ValidTitle(req[r].title[1])
    /\ req[r].is_completed = None

\* C1: update(id, title=X) with a valid X on an existing task changes only
\* title; is_completed and created_at keep their values and updated_at
\* becomes strictly greater than it was.
C1_UpdateTitleOnly ==
    \A r \in Workers :
        Left(r) /\ TitleOnly(r) /\ Existed(r) =>
            /\ status[r] = 200
            /\ req[r].id \in DOMAIN tasks
            /\ After(r).title = req[r].title[1]
            /\ After(r).is_completed = Before(r).is_completed
            /\ After(r).created_at = Before(r).created_at
            /\ After(r).updated_at > Before(r).updated_at
            /\ OthersKept(r)

Neither(r) ==
    /\ req[r].op = "update"
    /\ req[r].title = None
    /\ req[r].is_completed = None

ById(r) == req[r].op \in {"update", "toggle", "delete"}

\* C4 as claimed: once delete(id) has succeeded, every later update, toggle
\* or delete of that id answers 404 and changes nothing in the table.
C4_AfterDeleteNotFound ==
    \A r \in Workers :
        Left(r) /\ ById(r) /\ snap[r].gone =>
            /\ status[r] = 404
            /\ tasks = snap[r].tasks

\* C4 as amended: once delete(id) has succeeded the id never holds a task
\* again, and every later update, toggle or delete of that id changes
\* nothing in the table; it answers 404 after one SELECT, except an update
\* whose body fails validation, which answers 422 without any SQL.
C4_AfterDeleteFails ==
    /\ deleted \cap DOMAIN tasks = {}
    /\ \A r \in Workers :
        Left(r) /\ ById(r) /\ snap[r].gone =>
            /\ tasks = snap[r].tasks
            /\ IF ValidPayload(req[r])
               THEN status[r] = 404 /\ sql[r] = {"SELECT"}
               ELSE status[r] = 422 /\ sql[r] = {}

C4_Witness ==
    \E r \in Workers :
        /\ Left(r) /\ snap[r].gone
        /\ req[r].op = "update" /\ status[r] = 404

\* C5: create with a title of length 1 to 255 succeeds, and a list issued
\* right after it contains that task with the title asked for,
\* is_completed = FALSE and created_at = updated_at.
C5_CreateThenList ==
    \A r \in Workers :
        /\ Left(r) /\ req[r].op = "create" /\ req[r].title # None
                   /\ Len(req[r].title[1]) \in 1..255
              => status[r] = 201
        /\ Left(r) /\ req[r].op = "list" /\ snap[r].created # <<>> =>
              /\ status[r] = 200
              /\ \E i \in DOMAIN body[r] :
                    /\ body[r][i].id = snap[r].created[1].id
                    /\ body[r][i].title = snap[r].created[1].title
                    /\ body[r][i].is_completed = FALSE
                    /\ body[r][i].created_at = body[r][i].updated_at

C5_Witness ==
    \E r \in Workers :
        /\ Left(r) /\ req[r].op = "list" /\ snap[r].created # <<>>
        /\ Len(snap[r].created[1].title) = 255
        /\ Len(body[r]) = 2

\* C6: create with a title of length 0 or above 255 answers 422 before any
\* SQL is executed, and the table is the same after the request as before.
C6_CreateRejected ==
    \A r \in Workers :
        Left(r) /\ req[r].op = "create" /\ req[r].title # None
                /\ Len(req[r].title[1]) \notin 1..255 =>
            /\ status[r] = 422
            /\ sql[r] = {}
            /\ tasks = snap[r].tasks

C6_Witness ==
    \E r \in Workers :
        /\ Left(r) /\ req[r].op = "create" /\ req[r].title # None
        /\ Len(req[r].title[1]) = 256
        /\ status[r] = 422
        /\ tasks # <<>>

\* C7: list returns every stored task, each once, ordered by created_at
\* descending and, among equal created_at, by id descending.
C7_ListOrder ==
    \A r \in Workers :
        Left(r) /\ req[r].op = "list" =>
            /\ status[r] = 200
            /\ Len(body[r]) = Cardinality(DOMAIN tasks)
            /\ {body[r][i] : i \in DOMAIN body[r]} = {tasks[k] : k \in DOMAIN tasks}
            /\ \A i, j \in DOMAIN body[r] :
                  /\ body[r][i].created_at > body[r][j].created_at => i < j
                  /\ body[r][i].created_at = body[r][j].created_at
                       /\ body[r][i].id > body[r][j].id => i < j

C7_Witness ==
    \E r \in Workers :
        /\ Left(r) /\ req[r].op = "list"
        /\ \E i, j \in DOMAIN body[r] :
              i # j /\ body[r][i].created_at = body[r][j].created_at

Flipped(b, n) == IF n % 2 = 0 THEN b ELSE ~b

\* C8: toggle on an existing task stores the negation of is_completed,
\* whatever its value; after n toggles with no other write to the task in
\* between, is_completed is the original value for even n and its negation
\* for odd n.
C8_ToggleNegates ==
    /\ \A r \in Workers :
          Left(r) /\ req[r].op = "toggle" /\ Existed(r) =>
              /\ status[r] = 200
              /\ req[r].id \in DOMAIN tasks
              /\ After(r).is_completed = ~Before(r).is_completed
              /\ body[r] = <<After(r)>>
    /\ \A id \in DOMAIN tasks :
          tasks[id].is_completed = Flipped(flips[id].orig, flips[id].n)

C8_Witness ==
    \E id \in DOMAIN tasks :
        /\ flips[id].n = 2
        /\ \E r \in Workers : Left(r) /\ req[r].op = "toggle" /\ req[r].id = id

\* C9: every stored task has updated_at >= created_at, and its created_at
\* is the value the INSERT wrote.
C9_Timestamps ==
    \A id \in DOMAIN tasks :
        /\ tasks[id].updated_at >= tasks[id].created_at
        /\ tasks[id].created_at = born[id]

Documented(op) ==
    CASE op = "list" -> {200}
      [] op = "create" -> {201, 422}
      [] op = "update" -> {200, 404, 422}
      [] op = "toggle" -> {200, 404}
      [] op = "delete" -> {204, 404}

\* C3: under any interleaving of concurrent requests every request ends in
\* one of its documented outcomes (success, 404 or 422), and every stored
\* task satisfies the task invariants: its own id, a valid title,
\* updated_at >= created_at and the created_at of its INSERT.
C3_ConcurrentOutcomes ==
    /\ \A r \in Workers : Left(r) => status[r] \in Documented(req[r].op)
    /\ \A id \in DOMAIN tasks :
          /\ tasks[id].id = id
          /\ ValidTitle(tasks[id].title)
          /\ tasks[id].updated_at >= tasks[id].created_at
          /\ tasks[id].created_at = born[id]

Active(r) == pc[r] # "idle"

\* C10: every request in progress holds an open Session of its own, shared
\* with no other request, and once a request has finished, whatever its
\* outcome, its Session is closed: the open Sessions are exactly those of
\* the requests in progress.
C10_SessionPerRequest ==
    /\ \A r \in Workers : Active(r) => sess[r] \in open
    /\ \A r \in Workers : ~Active(r) => sess[r] \notin open
    /\ \A r1, r2 \in Workers :
          Active(r1) /\ Active(r2) /\ r1 # r2 => sess[r1] # sess[r2]
    /\ open \subseteq {sess[r] : r \in Workers}

\* A request that ended in an unhandled exception has finished.
C10_Witness ==
    \E r \in Workers :
        ~Active(r) /\ status[r] = 500 /\ sess[r] # 0 /\ sess[r] \notin open
====
